---- MODULE Spec2Model ----
(***************************************************************************)
(* Model of set_port_descriptions_from_csv.py: the CSV load loop, the     *)
(* per-host configure_switch task, the ThreadPoolExecutor that runs the    *)
(* tasks, the as_completed collection loop, and the report and summary.    *)
(*                                                                         *)
(* A Python str is a sequence of code points (32 is the space, 10 the line *)
(* feed, 65..90 the upper-case letters, 97..122 the lower-case letters).   *)
(* A formatted line (an f-string) is the tuple of its template and the     *)
(* values substituted into it.  A dict is the sequence of its (key,value)  *)
(* pairs in insertion order, which is the order Python iterates it in.     *)
(***************************************************************************)
EXTENDS Integers, Sequences, FiniteSets, TLC

VARIABLES USERNAME, PASSWORD, SECRET, threads, csv, row_idx,
          devices_interfaces, pc, tasks, yielded, results, exc,
          report_i, stdout

vars == <<USERNAME, PASSWORD, SECRET, threads, csv, row_idx,
          devices_interfaces, pc, tasks, yielded, results, exc,
          report_i, stdout>>

(***************************************************************************)
(* Bounds of the model.                                                    *)
(***************************************************************************)
\* rows in the CSV file of a whole run
MaxRows == 3
\* rows in the CSV file of a run under fair scheduling
MaxFairRows == 2
\* rows in the CSV file of a load-only run
MaxLoadRows == 3

(***************************************************************************)
(* str methods.                                                            *)
(***************************************************************************)
\* the characters str.strip() removes among the ones the model uses
Whitespace == {9, 10, 13, 32}

\* the line boundaries of str.splitlines() among the ones the model uses
LineBreaks == {10}

RECURSIVE LStrip(_)
LStrip(s) ==
    IF s # <<>> /\ Head(s) \in Whitespace THEN LStrip(Tail(s)) ELSE s

RECURSIVE RStrip(_)
RStrip(s) ==
    IF s # <<>> /\ s[Len(s)] \in Whitespace
    THEN RStrip(SubSeq(s, 1, Len(s) - 1))
    ELSE s

\* s.strip()
Strip(s) == RStrip(LStrip(s))

\* s.lower(), on ASCII
Lower(s) == [k \in 1..Len(s) |-> IF s[k] >= 65 /\ s[k] <= 90 THEN s[k] + 32 ELSE s[k]]

\* s.startswith(p)
StartsWith(s, p) == Len(s) >= Len(p) /\ SubSeq(s, 1, Len(p)) = p

\* s.splitlines(): the lines of s without their line breaks; a trailing
\* line break does not start another line
RECURSIVE SplitLinesFrom(_, _)
SplitLinesFrom(s, cur) ==
    IF s = <<>> THEN (IF cur = <<>> THEN <<>> ELSE <<cur>>)
    ELSE IF Head(s) \in LineBreaks THEN <<cur>> \o SplitLinesFrom(Tail(s), <<>>)
    ELSE SplitLinesFrom(Tail(s), Append(cur, Head(s)))

SplitLines(s) == SplitLinesFrom(s, <<>>)

\* a < b for two str, as Python compares them (code point by code point)
RECURSIVE StrLess(_, _)
StrLess(a, b) ==
    IF b = <<>> THEN FALSE
    ELSE IF a = <<>> THEN TRUE
    ELSE IF Head(a) # Head(b) THEN Head(a) < Head(b)
    ELSE StrLess(Tail(a), Tail(b))

\* sorted(keys): insertion of each key into the sorted prefix
RECURSIVE SortedInsert(_, _)
SortedInsert(s, k) ==
    IF s = <<>> THEN <<k>>
    ELSE IF StrLess(k, Head(s)) THEN <<k>> \o s
    ELSE <<Head(s)>> \o SortedInsert(Tail(s), k)

RECURSIVE Sorted(_)
Sorted(s) ==
    IF s = <<>> THEN <<>>
    ELSE SortedInsert(Sorted(SubSeq(s, 1, Len(s) - 1)), s[Len(s)])

(***************************************************************************)
(* dict operations: a dict is a sequence of <<key, value>> pairs.          *)
(***************************************************************************)
DictKeys(d) == [k \in 1..Len(d) |-> d[k][1]]

DictHas(d, key) == \E k \in 1..Len(d) : d[k][1] = key

DictGet(d, key) == d[CHOOSE k \in 1..Len(d) : d[k][1] = key][2]

\* d[key] = val: a new key goes last, an existing key keeps its place
DictSet(d, key, val) ==
    IF DictHas(d, key)
    THEN [k \in 1..Len(d) |-> IF d[k][1] = key THEN <<key, val>> ELSE d[k]]
    ELSE Append(d, <<key, val>>)

\* devices_interfaces[host].append(pair) on a defaultdict(list)
DictAppend(d, key, pair) ==
    IF DictHas(d, key)
    THEN DictSet(d, key, Append(DictGet(d, key), pair))
    ELSE Append(d, <<key, <<pair>>>>)

(***************************************************************************)
(* The literals of the program.                                            *)
(***************************************************************************)
\* "blank"
blank == <<98, 108, 97, 110, 107>>

\* "interface"
interface == <<105, 110, 116, 101, 114, 102, 97, 99, 101>>

(***************************************************************************)
(* The inputs of the model.                                                *)
(***************************************************************************)
\* "a", " a " and "b"
HostA == <<97>>
HostAPadded == <<32, 97, 32>>
HostB == <<98>>

\* "g1" and "g2"
Iface1 == <<103, 49>>
Iface2 == <<103, 50>>

\* "pc" and "Blank"
DescPC == <<112, 99>>
DescBlank == <<66>> \o Tail(blank)

\* the rows a whole run reads: complete rows of two hosts, one of them
\* written with and without padding, with a text and a blank description
RunRows ==
    { <<HostB, Iface1, DescPC>>,
      <<HostA, Iface1, DescBlank>>,
      <<HostAPadded, Iface2, DescPC>>,
      <<HostB, <<32>>, DescPC>> }

\* the rows a load-only run reads: an empty line, rows shorter than the
\* header, rows with an empty or all-blank column, and complete rows of two
\* hosts, one of them written with and without padding
LoadRows ==
    { <<>>,
      <<HostA>>,
      <<HostA, Iface1>>,
      <<<<>>, Iface1, DescPC>>,
      <<HostA, <<32>>, DescPC>>,
      <<HostB, Iface1, <<>>>>,
      <<HostA, Iface1, DescPC>>,
      <<HostAPadded, Iface2, DescPC>>,
      <<HostB, Iface1, DescPC>> }

RECURSIVE SeqsUpTo(_, _)
SeqsUpTo(S, n) ==
    IF n = 0 THEN { <<>> }
    ELSE LET shorter == SeqsUpTo(S, n - 1)
         IN  shorter \cup { Append(s, x) : s \in { q \in shorter : Len(q) = n - 1 }, x \in S }

\* the pool width the program sets
DefaultThreads == 10

\* the pool widths of the model: narrower than the host count, and the default
PoolWidths == {1, DefaultThreads}

(***************************************************************************)
(* Initial states: the module has been imported, nothing has run.          *)
(***************************************************************************)
InitWith(files) ==
    /\ USERNAME \in BOOLEAN
    /\ PASSWORD \in BOOLEAN
    /\ SECRET \in BOOLEAN
    /\ threads \in PoolWidths
    /\ csv \in files
    /\ row_idx = 1
    /\ devices_interfaces = <<>>
    /\ pc = "credentials"
    /\ tasks = <<>>
    /\ yielded = {}
    /\ results = <<>>
    /\ exc = <<>>
    /\ report_i = 1
    /\ stdout = <<>>

Init == InitWith(SeqsUpTo(RunRows, MaxRows))

InitFair == InitWith(SeqsUpTo(RunRows, MaxFairRows))

\* a load-only run: the load reads neither SECRET nor threads
InitLoad ==
    /\ InitWith(SeqsUpTo(LoadRows, MaxLoadRows))
    /\ SECRET = FALSE
    /\ threads = DefaultThreads

(***************************************************************************)
(* Pre-flight and CSV load.                                                *)
(***************************************************************************)
\* CredentialsMissing with "and" for "or"
CredentialsBothMissing == ~USERNAME /\ ~PASSWORD

\* if not USERNAME or not PASSWORD: raise SystemExit
CredentialsMissing == ~USERNAME \/ ~PASSWORD

CheckCredentials ==
    /\ pc = "credentials"
    /\ pc' = IF CredentialsMissing THEN "aborted" ELSE "load"
    /\ UNCHANGED <<USERNAME, PASSWORD, SECRET, threads, csv, row_idx,
                   devices_interfaces, tasks, yielded, results, exc,
                   report_i, stdout>>

\* csv.DictReader: a row shorter than the header has None for the missing
\* columns; columns past the header are kept under another key
RowHasNone(row) == Len(row) < 3

\* if not host or not iface or not desc: continue
RowIncomplete(host, iface, desc) == host = <<>> \/ iface = <<>> \/ desc = <<>>

\* one iteration of "for row in reader"
ReadRow ==
    /\ pc = "load"
    /\ row_idx <= Len(csv)
    /\ LET row == csv[row_idx] IN
       IF row = <<>>
       THEN \* DictReader skips a line with no columns
            /\ row_idx' = row_idx + 1
            /\ UNCHANGED <<devices_interfaces, pc>>
       ELSE IF RowHasNone(row)
       THEN \* None.strip() raises AttributeError, which nothing catches
            /\ pc' = "crashed"
            /\ UNCHANGED <<devices_interfaces, row_idx>>
       ELSE LET host == Strip(row[1])
                iface == Strip(row[2])
                desc == Strip(row[3])
            IN  /\ row_idx' = row_idx + 1
                /\ devices_interfaces' =
                       IF RowIncomplete(host, iface, desc)
                       THEN devices_interfaces
                       ELSE DictAppend(devices_interfaces, host, <<iface, desc>>)
                /\ pc' = pc
    /\ UNCHANGED <<USERNAME, PASSWORD, SECRET, threads, csv, tasks, yielded,
                   results, exc, report_i, stdout>>

\* the reader is exhausted: if not devices_interfaces: raise SystemExit
CheckPlan ==
    /\ pc = "load"
    /\ row_idx > Len(csv)
    /\ pc' = IF devices_interfaces = <<>> THEN "aborted" ELSE "submit"
    /\ UNCHANGED <<USERNAME, PASSWORD, SECRET, threads, csv, row_idx,
                   devices_interfaces, tasks, yielded, results, exc,
                   report_i, stdout>>

(***************************************************************************)
(* configure_switch(host, entries), run by a pool thread as task t.        *)
(*                                                                         *)
(* Every call of the device session (ConnectHandler, enable,               *)
(* send_config_set, save_config, send_command, disconnect) is one step     *)
(* that either returns or raises; the log of a task records each call,     *)
(* what it was given and whether it returned.                              *)
(***************************************************************************)
\* the text send_command returns: a header line and an interface line, or
\* nothing
QueryReplies ==
    { <<73>> \o Tail(interface) \o <<10, 32>> \o Iface1 \o <<10>>,
      <<>> }

\* str(e) of the exception a device call raises
ErrorOf(op) == <<"{op} failed", op>>

Call(op, arg, ok) == [op |-> op, arg |-> arg, ok |-> ok]

\* BuildConfigCmds without the lower(): only "blank" itself clears
RECURSIVE BuildConfigCmdsCaseSensitive(_)
BuildConfigCmdsCaseSensitive(entries) ==
    IF entries = <<>> THEN <<>>
    ELSE LET iface == Head(entries)[1]
             desc == Head(entries)[2]
         IN  << <<"interface {iface}", iface>>,
                IF Strip(desc) = blank
                THEN <<"no description">>
                ELSE <<"description {desc}", desc>> >>
             \o BuildConfigCmdsCaseSensitive(Tail(entries))

\* lines 121-129: the configuration commands of the entries
RECURSIVE BuildConfigCmds(_)
BuildConfigCmds(entries) ==
    IF entries = <<>> THEN <<>>
    ELSE LET iface == Head(entries)[1]
             desc == Head(entries)[2]
         IN  << <<"interface {iface}", iface>>,
                IF Lower(Strip(desc)) = blank
                THEN <<"no description">>
                ELSE <<"description {desc}", desc>> >>
             \o BuildConfigCmds(Tail(entries))

\* lines 151-166: the lines of a reply that are neither empty nor a header
RECURSIVE KeptLines(_)
KeptLines(lines) ==
    IF lines = <<>> THEN <<>>
    ELSE LET line == Head(lines)
             line_stripped == Strip(line)
         IN  IF line_stripped = <<>> \/ StartsWith(Lower(line_stripped), interface)
             THEN KeptLines(Tail(lines))
             ELSE << <<"{line}", line>> >> \o KeptLines(Tail(lines))

\* except Exception as e: return False, host, f"XXX ERROR on {host}: {e}"
Failure(host, e) == <<FALSE, host, << <<"XXX ERROR on {host}: {e}", host, e>> >> >>

\* the task as submitted: a pending future and the arguments of the call
NewTask(host, entries) ==
    [ host |-> host, entries |-> entries, state |-> "PENDING", at |-> "start",
      conn |-> FALSE, i |-> 1, out_lines |-> <<>>, ret |-> <<>>,
      outcome |-> <<>>, log |-> <<>> ]

Running(t) == t \in 1..Len(tasks) /\ tasks[t].state = "RUNNING"

\* a device call of task t at position at: it returns and the task goes on
\* as in ok, or it raises and the except clause makes the failure return
DeviceCall(t, at, op, arg, ok) ==
    /\ Running(t)
    /\ tasks[t].at = at
    /\ \/ tasks' = [tasks EXCEPT ![t] =
                       [ok EXCEPT !.log = Append(tasks[t].log, Call(op, arg, TRUE))]]
       \/ tasks' = [tasks EXCEPT ![t] =
                       [tasks[t] EXCEPT !.log = Append(@, Call(op, arg, FALSE)),
                                        !.ret = Failure(tasks[t].host, ErrorOf(op)),
                                        !.at = "finally"]]
    /\ UNCHANGED <<USERNAME, PASSWORD, SECRET, threads, csv, row_idx,
                   devices_interfaces, pc, yielded, results, exc, report_i,
                   stdout>>

\* conn = ConnectHandler(**device)
Open(t) ==
    DeviceCall(t, "open", "open", tasks[t].host,
               [tasks[t] EXCEPT !.conn = TRUE,
                                !.at = IF SECRET THEN "enable" ELSE "apply"])

\* if SECRET: conn.enable()
Enable(t) ==
    DeviceCall(t, "enable", "enable", <<>>, [tasks[t] EXCEPT !.at = "apply"])

\* conn.send_config_set(config_cmds)
Apply(t) ==
    DeviceCall(t, "apply", "apply", BuildConfigCmds(tasks[t].entries),
               [tasks[t] EXCEPT !.at = "persist"])

\* Verified with the loop ending one entry early
VerifiedOneShort(task) ==
    IF task.i >= Len(task.entries)
    THEN [task EXCEPT !.ret = <<TRUE, task.host, task.out_lines>>, !.at = "finally"]
    ELSE task

\* return True, host, verify_block, once the for loop over entries is over
Verified(task) ==
    IF task.i > Len(task.entries)
    THEN [task EXCEPT !.ret = <<TRUE, task.host, task.out_lines>>, !.at = "finally"]
    ELSE task

\* conn.save_config(), and the first line of the output block
Persist(t) ==
    DeviceCall(t, "persist", "persist", <<>>,
               Verified([tasks[t] EXCEPT
                   !.out_lines = << <<">>> Verifying interface descriptions on {host}:",
                                      tasks[t].host>> >>,
                   !.i = 1,
                   !.at = "verify"]))

\* one iteration of "for iface, _ in entries": conn.send_command(...)
Query(t) ==
    \E output \in QueryReplies :
        DeviceCall(t, "verify", "query",
                   <<"show interface {iface} description", tasks[t].entries[tasks[t].i][1]>>,
                   Verified([tasks[t] EXCEPT
                       !.out_lines = @ \o KeptLines(SplitLines(Strip(output))),
                       !.i = @ + 1]))

\* the future of a task whose call has ended with ret, or with exception e
Finished(task, raised, e) ==
    [task EXCEPT !.state = "FINISHED",
                 !.at = "end",
                 !.outcome = IF raised THEN <<"exception", e>> ELSE <<"result", task.ret>>]

\* Finally with the disconnect at the end of the try block instead: the
\* session is closed only on the path that returns success
FinallyOnSuccessOnly(t) ==
    /\ Running(t)
    /\ tasks[t].at = "finally"
    /\ IF tasks[t].conn /\ tasks[t].ret[1]
       THEN \/ tasks' = [tasks EXCEPT ![t] =
                    Finished([tasks[t] EXCEPT !.log = Append(@, Call("close", <<>>, TRUE))],
                             FALSE, <<>>)]
            \/ tasks' = [tasks EXCEPT ![t] =
                    Finished([tasks[t] EXCEPT !.log = Append(@, Call("close", <<>>, FALSE))],
                             TRUE, ErrorOf("close"))]
       ELSE tasks' = [tasks EXCEPT ![t] = Finished(tasks[t], FALSE, <<>>)]
    /\ UNCHANGED <<USERNAME, PASSWORD, SECRET, threads, csv, row_idx,
                   devices_interfaces, pc, yielded, results, exc, report_i,
                   stdout>>

\* finally: if conn: conn.disconnect(); then the call ends.  An exception
\* raised in the finally clause replaces the pending return.
Finally(t) ==
    /\ Running(t)
    /\ tasks[t].at = "finally"
    /\ IF tasks[t].conn
       THEN \/ tasks' = [tasks EXCEPT ![t] =
                    Finished([tasks[t] EXCEPT !.log = Append(@, Call("close", <<>>, TRUE))],
                             FALSE, <<>>)]
            \/ tasks' = [tasks EXCEPT ![t] =
                    Finished([tasks[t] EXCEPT !.log = Append(@, Call("close", <<>>, FALSE))],
                             TRUE, ErrorOf("close"))]
       ELSE tasks' = [tasks EXCEPT ![t] = Finished(tasks[t], FALSE, <<>>)]
    /\ UNCHANGED <<USERNAME, PASSWORD, SECRET, threads, csv, row_idx,
                   devices_interfaces, pc, yielded, results, exc, report_i,
                   stdout>>

(***************************************************************************)
(* ThreadPoolExecutor(max_workers=threads).                                *)
(***************************************************************************)
\* Start with a thread per work item, whatever max_workers is
StartUnbounded(t) ==
    /\ t \in 1..Len(tasks)
    /\ tasks[t].state = "PENDING"
    /\ \A u \in 1..(t - 1) : tasks[u].state # "PENDING"
    /\ tasks' = [tasks EXCEPT ![t] = [@ EXCEPT !.state = "RUNNING", !.at = "open"]]
    /\ UNCHANGED <<USERNAME, PASSWORD, SECRET, threads, csv, row_idx,
                   devices_interfaces, pc, yielded, results, exc, report_i,
                   stdout>>

\* a pool thread takes the oldest pending work item; the pool has at most
\* max_workers threads
Start(t) ==
    /\ t \in 1..Len(tasks)
    /\ tasks[t].state = "PENDING"
    /\ \A u \in 1..(t - 1) : tasks[u].state # "PENDING"
    /\ Cardinality({u \in 1..Len(tasks) : tasks[u].state = "RUNNING"}) < threads
    /\ tasks' = [tasks EXCEPT ![t] = [@ EXCEPT !.state = "RUNNING", !.at = "open"]]
    /\ UNCHANGED <<USERNAME, PASSWORD, SECRET, threads, csv, row_idx,
                   devices_interfaces, pc, yielded, results, exc, report_i,
                   stdout>>

\* Submit with the loop variable replaced by the first item of the dict
SubmitFirstItem ==
    /\ pc = "submit"
    /\ LET k == Len(tasks) + 1
           host == devices_interfaces[1][1]
           entries == devices_interfaces[1][2]
       IN  /\ tasks' = Append(tasks, NewTask(host, entries))
           /\ pc' = IF k = Len(devices_interfaces) THEN "collect" ELSE "submit"
    /\ UNCHANGED <<USERNAME, PASSWORD, SECRET, threads, csv, row_idx,
                   devices_interfaces, yielded, results, exc, report_i, stdout>>

\* one iteration of the dict comprehension over devices_interfaces.items():
\* executor.submit(configure_switch, host, entries)
Submit ==
    /\ pc = "submit"
    /\ LET k == Len(tasks) + 1
           host == devices_interfaces[k][1]
           entries == devices_interfaces[k][2]
       IN  /\ tasks' = Append(tasks, NewTask(host, entries))
           /\ pc' = IF k = Len(devices_interfaces) THEN "collect" ELSE "submit"
    /\ UNCHANGED <<USERNAME, PASSWORD, SECRET, threads, csv, row_idx,
                   devices_interfaces, yielded, results, exc, report_i, stdout>>

\* Collect that drops the host of the returned tuple ("ok, _, text =") and
\* so stores under the module-level host left by the CSV load loop
CollectUnderLoopHost ==
    /\ pc = "collect"
    /\ \E t \in 1..Len(tasks) :
        /\ tasks[t].state = "FINISHED"
        /\ t \notin yielded
        /\ yielded' = yielded \cup {t}
        /\ IF tasks[t].outcome[1] = "exception"
           THEN /\ exc' = <<tasks[t].outcome[2]>>
                /\ pc' = "shutdown"
                /\ UNCHANGED results
           ELSE LET ok == tasks[t].outcome[2][1]
                    host == Strip(csv[Len(csv)][1])
                    text == tasks[t].outcome[2][3]
                IN  /\ results' = DictSet(results, host, <<ok, text>>)
                    /\ pc' = IF yielded' = 1..Len(tasks) THEN "shutdown" ELSE "collect"
                    /\ UNCHANGED exc
    /\ UNCHANGED <<USERNAME, PASSWORD, SECRET, threads, csv, row_idx,
                   devices_interfaces, tasks, report_i, stdout>>

\* Collect with "for future in futures" for as_completed(futures): the main
\* thread waits for the futures in submission order
CollectInSubmissionOrder ==
    /\ pc = "collect"
    /\ \E t \in 1..Len(tasks) :
        /\ tasks[t].state = "FINISHED"
        /\ t \notin yielded
        /\ \A u \in 1..(t - 1) : u \in yielded
        /\ yielded' = yielded \cup {t}
        /\ IF tasks[t].outcome[1] = "exception"
           THEN /\ exc' = <<tasks[t].outcome[2]>>
                /\ pc' = "shutdown"
                /\ UNCHANGED results
           ELSE LET ok == tasks[t].outcome[2][1]
                    host == tasks[t].outcome[2][2]
                    text == tasks[t].outcome[2][3]
                IN  /\ results' = DictSet(results, host, <<ok, text>>)
                    /\ pc' = IF yielded' = 1..Len(tasks) THEN "shutdown" ELSE "collect"
                    /\ UNCHANGED exc
    /\ UNCHANGED <<USERNAME, PASSWORD, SECRET, threads, csv, row_idx,
                   devices_interfaces, tasks, report_i, stdout>>

\* one iteration of "for future in as_completed(futures)": a finished future
\* not yielded before; future.result() returns the task's tuple or raises
\* the task's exception, which nothing in the main thread catches
Collect ==
    /\ pc = "collect"
    /\ \E t \in 1..Len(tasks) :
        /\ tasks[t].state = "FINISHED"
        /\ t \notin yielded
        /\ yielded' = yielded \cup {t}
        /\ IF tasks[t].outcome[1] = "exception"
           THEN /\ exc' = <<tasks[t].outcome[2]>>
                /\ pc' = "shutdown"
                /\ UNCHANGED results
           ELSE LET ok == tasks[t].outcome[2][1]
                    host == tasks[t].outcome[2][2]
                    text == tasks[t].outcome[2][3]
                IN  /\ results' = DictSet(results, host, <<ok, text>>)
                    /\ pc' = IF yielded' = 1..Len(tasks) THEN "shutdown" ELSE "collect"
                    /\ UNCHANGED exc
    /\ UNCHANGED <<USERNAME, PASSWORD, SECRET, threads, csv, row_idx,
                   devices_interfaces, tasks, report_i, stdout>>

\* Shutdown with shutdown(wait=False): the main thread goes on at once
ShutdownWithoutWaiting ==
    /\ pc = "shutdown"
    /\ pc' = IF exc # <<>> THEN "crashed" ELSE "report"
    /\ UNCHANGED <<USERNAME, PASSWORD, SECRET, threads, csv, row_idx,
                   devices_interfaces, tasks, yielded, results, exc, report_i,
                   stdout>>

\* the end of the with block: executor.shutdown(wait=True) returns when
\* every submitted task has run; an exception in flight then ends the program
Shutdown ==
    /\ pc = "shutdown"
    /\ \A t \in 1..Len(tasks) : tasks[t].state = "FINISHED"
    /\ pc' = IF exc # <<>> THEN "crashed" ELSE "report"
    /\ UNCHANGED <<USERNAME, PASSWORD, SECRET, threads, csv, row_idx,
                   devices_interfaces, tasks, yielded, results, exc, report_i,
                   stdout>>

(***************************************************************************)
(* Report and summary.                                                     *)
(***************************************************************************)
\* ReportLines without the "if ok": the marker is printed for every host
ReportLinesAlwaysMarked(host, ok, text) ==
    text
    \o << <<">>> SUCCESS: {host}", host>> >>
    \o << <<"">> >>

\* one iteration of "for host in sorted(results)"
ReportLines(host, ok, text) ==
    text
    \o (IF ok THEN << <<">>> SUCCESS: {host}", host>> >> ELSE <<>>)
    \o << <<"">> >>

Report ==
    /\ pc = "report"
    /\ report_i <= Len(results)
    /\ LET host == Sorted(DictKeys(results))[report_i]
           ok == DictGet(results, host)[1]
           text == DictGet(results, host)[2]
       IN  stdout' = stdout \o ReportLines(host, ok, text)
    /\ report_i' = report_i + 1
    /\ UNCHANGED <<USERNAME, PASSWORD, SECRET, threads, csv, row_idx,
                   devices_interfaces, pc, tasks, yielded, results, exc>>

\* HostsWith with the same condition "if ok" in both comprehensions
RECURSIVE HostsWithSameCondition(_, _)
HostsWithSameCondition(items, flag) ==
    IF items = <<>> THEN <<>>
    ELSE (IF Head(items)[2][1] THEN <<Head(items)[1]>> ELSE <<>>)
         \o HostsWithSameCondition(Tail(items), flag)

\* [h for h, (ok, _) in results.items() if ok == flag]
RECURSIVE HostsWith(_, _)
HostsWith(items, flag) ==
    IF items = <<>> THEN <<>>
    ELSE (IF Head(items)[2][1] = flag THEN <<Head(items)[1]>> ELSE <<>>)
         \o HostsWith(Tail(items), flag)

SummaryLines(res) ==
    LET successes == HostsWith(res, TRUE)
        failures == HostsWith(res, FALSE)
    IN  << <<"\n========== SUMMARY ==========">>,
           <<"Total switches:  {len(results)}", Len(res)>>,
           <<"Successful:      {len(successes)}", Len(successes)>>,
           <<"Failed:          {len(failures)}", Len(failures)>> >>
        \o (IF failures # <<>>
            THEN << <<"\nFailed hosts:">> >>
                 \o [k \in 1..Len(failures) |-> <<" - {h}", failures[k]>>]
            ELSE <<>>)
        \o << <<"\nDone.">> >>

\* the report loop is over: lines 223-236
Summary ==
    /\ pc = "report"
    /\ report_i > Len(results)
    /\ stdout' = stdout \o SummaryLines(results)
    /\ pc' = "done"
    /\ UNCHANGED <<USERNAME, PASSWORD, SECRET, threads, csv, row_idx,
                   devices_interfaces, tasks, yielded, results, exc, report_i>>

\* the tasks the model can hold: one per host of the rows a run reads
TaskIds == 1..Cardinality({Strip(row[1]) : row \in RunRows})

Worker(t) == Start(t) \/ Open(t) \/ Enable(t) \/ Apply(t) \/ Persist(t) \/ Query(t) \/ Finally(t)

Next ==
    \/ CheckCredentials
    \/ ReadRow
    \/ CheckPlan
    \/ Submit
    \/ Collect
    \/ Shutdown
    \/ Report
    \/ Summary
    \/ \E t \in TaskIds : Worker(t)

Spec == Init /\ [][Next]_vars

\* the steps of the main thread
Main ==
    \/ CheckCredentials
    \/ ReadRow
    \/ CheckPlan
    \/ Submit
    \/ Collect
    \/ Shutdown
    \/ Report
    \/ Summary

\* the end of a call that has no session to close: the one step of a task
\* that is not a device call
LocalReturn(t) == Finally(t) /\ ~tasks[t].conn

\* Fair scheduling of the threads: the main thread and the pool threads take
\* their own steps.  No device call has a timeout, so nothing makes a
\* device call return.
SpecFair ==
    /\ InitFair
    /\ [][Next]_vars
    /\ WF_vars(Main)
    /\ \A t \in TaskIds : WF_vars(Start(t)) /\ WF_vars(LocalReturn(t))

\* Fair scheduling of the threads with device calls that all end: every
\* call of the device session eventually returns or raises.
SpecLive ==
    /\ InitFair
    /\ [][Next]_vars
    /\ WF_vars(Main)
    /\ \A t \in TaskIds : WF_vars(Worker(t))

(***************************************************************************)
(* What a run has done, read from the logs and from stdout.                *)
(***************************************************************************)
\* the calls of op in the log of task t
CallsOf(t, op) == {k \in 1..Len(tasks[t].log) : tasks[t].log[k].op = op}

Ended(t) == t \in 1..Len(tasks) /\ tasks[t].state = "FINISHED"

\* ConnectHandler returned a session to task t
Opened(t) == \E k \in CallsOf(t, "open") : tasks[t].log[k].ok

\* some device call of task t raised
SomeCallRaised(t) == \E k \in 1..Len(tasks[t].log) : ~tasks[t].log[k].ok

\* the program is over after having submitted its tasks
RunOver == pc = "done" \/ (pc = "crashed" /\ tasks # <<>>)

\* the printed lines made from template
Printed(template) == {k \in 1..Len(stdout) : stdout[k][1] = template}

\* the number printed in the summary line made from template
PrintedNumber(template) == stdout[CHOOSE k \in Printed(template) : TRUE][2]

(***************************************************************************)
(* C1.  As claimed: every configure_switch call that has ended, whichever  *)
(* way, has closed the device session exactly once.                        *)
(***************************************************************************)
C1_ClosedOnceOnEveryPath ==
    \A t \in TaskIds : Ended(t) => Cardinality(CallsOf(t, "close")) = 1

\* C1, amended: a configure_switch call never closes the session twice, and
\* when it has ended it has closed the session exactly once if
\* ConnectHandler returned one and not at all if ConnectHandler raised.
C1_ClosedOnceIfOpened ==
    \A t \in TaskIds :
        t \in 1..Len(tasks) =>
            /\ Cardinality(CallsOf(t, "close")) <= 1
            /\ Ended(t) =>
                   Cardinality(CallsOf(t, "close")) = IF Opened(t) THEN 1 ELSE 0

\* a call that opened its session, failed to persist, closed it and ended
C1_Witness ==
    \E t \in TaskIds :
        /\ Ended(t)
        /\ Opened(t)
        /\ \E k \in CallsOf(t, "persist") : ~tasks[t].log[k].ok
        /\ Cardinality(CallsOf(t, "close")) = 1

(***************************************************************************)
(* C2.  configure_switch never raises: every call that has ended has       *)
(* returned a tuple, and a failure tuple when a device call raised, so the *)
(* main thread never has an exception of a future in flight.               *)
(***************************************************************************)
C2_NeverPropagates ==
    /\ exc = <<>>
    /\ \A t \in TaskIds :
           Ended(t) =>
               /\ tasks[t].outcome[1] = "result"
               /\ SomeCallRaised(t) => ~tasks[t].outcome[2][1]

(***************************************************************************)
(* C3.  When the run is over, every host whose device calls all returned   *)
(* has its success marker printed and the summary counts at least one      *)
(* success, whatever happened to the other hosts.                          *)
(***************************************************************************)
SuccessReported(host) ==
    /\ \E k \in Printed(">>> SUCCESS: {host}") : stdout[k][2] = host
    /\ Printed("Successful:      {len(successes)}") # {}
    /\ PrintedNumber("Successful:      {len(successes)}") >=
           Cardinality({k \in Printed(">>> SUCCESS: {host}") : TRUE})

C3_FailureDoesNotHideSuccess ==
    RunOver =>
        \A t \in TaskIds :
            (Ended(t) /\ ~SomeCallRaised(t)) => SuccessReported(tasks[t].host)

(***************************************************************************)
(* C4.  configure_switch is invoked (it calls ConnectHandler first thing)  *)
(* at most once for a host, only for hosts of devices_interfaces, whose    *)
(* keys are distinct and trimmed, and exactly once for each of them by the *)
(* time the run is over.                                                   *)
(***************************************************************************)
PlanHosts == {devices_interfaces[k][1] : k \in 1..Len(devices_interfaces)}

Invocations(host) ==
    Cardinality(UNION { { <<t, k>> : k \in CallsOf(t, "open") } :
                        t \in {u \in 1..Len(tasks) : tasks[u].host = host} })

C4_OncePerHost ==
    /\ Cardinality(PlanHosts) = Len(devices_interfaces)
    /\ \A h \in PlanHosts : Strip(h) = h
    /\ \A t \in TaskIds :
           t \in 1..Len(tasks) =>
               /\ tasks[t].host \in PlanHosts
               /\ Cardinality(CallsOf(t, "open")) <= 1
               /\ \A u \in TaskIds :
                      (u \in 1..Len(tasks) /\ tasks[u].host = tasks[t].host) => u = t
    /\ RunOver => \A h \in PlanHosts : Invocations(h) = 1

\* two hosts and a pool of one thread: both were invoked and the run is over
C4_Witness ==
    /\ RunOver
    /\ threads = 1
    /\ Len(devices_interfaces) = 2
    /\ \A h \in PlanHosts : Invocations(h) = 1

(***************************************************************************)
(* C5.  When the summary has been printed, the printed success and         *)
(* failure counts add up to the printed total, and the total is the number *)
(* of hosts of devices_interfaces.                                         *)
(***************************************************************************)
C5_SummaryAddsUp ==
    pc = "done" =>
        /\ Printed("Total switches:  {len(results)}") # {}
        /\ PrintedNumber("Successful:      {len(successes)}")
             + PrintedNumber("Failed:          {len(failures)}")
           = PrintedNumber("Total switches:  {len(results)}")
        /\ PrintedNumber("Total switches:  {len(results)}") = Len(devices_interfaces)

\* a summary of one success and one failure
C5_Witness ==
    /\ pc = "done"
    /\ PrintedNumber("Successful:      {len(successes)}") = 1
    /\ PrintedNumber("Failed:          {len(failures)}") = 1

(***************************************************************************)
(* C6.  A row with a column missing, or empty after trimming, is skipped   *)
(* without ending the load; every other row is appended to the list of     *)
(* its host, so that after any number of rows the list of each host is     *)
(* the pairs of its complete rows in the order of the file.                *)
(***************************************************************************)
\* column n of a row, trimmed; a column the row does not have is empty
Column(row, n) == IF n <= Len(row) THEN Strip(row[n]) ELSE <<>>

Complete(row) == \A n \in 1..3 : Column(row, n) # <<>>

PairsOf(rows) == [k \in 1..Len(rows) |-> <<Column(rows[k], 2), Column(rows[k], 3)>>]

RowsOfHost(rows, host) ==
    SelectSeq(rows, LAMBDA row : Complete(row) /\ Column(row, 1) = host)

PlanList(host) ==
    IF DictHas(devices_interfaces, host) THEN DictGet(devices_interfaces, host) ELSE <<>>

C6_LoadKeepsCompleteRowsInOrder ==
    /\ pc # "crashed"
    /\ LET read == SubSeq(csv, 1, row_idx - 1)
       IN  /\ \A h \in PlanHosts : RowsOfHost(read, h) # <<>>
           /\ \A k \in 1..Len(read) :
                  PlanList(Column(read[k], 1)) = PairsOf(RowsOfHost(read, Column(read[k], 1)))

(***************************************************************************)
(* C7.  With NET_USER or NET_PASS absent, or with no complete row in the   *)
(* CSV, the run never gets past the load: no task is ever submitted, so no *)
(* session is ever opened, and the run can only end aborted.               *)
(***************************************************************************)
NoUsableRows == \A k \in 1..Len(csv) : ~Complete(csv[k])

C7_NoNetworkBeforeAbort ==
    (~USERNAME \/ ~PASSWORD \/ NoUsableRows) =>
        /\ tasks = <<>>
        /\ pc \in {"credentials", "load", "aborted"}

\* aborted with both credentials set, on a file whose rows are all incomplete
C7_Witness ==
    /\ pc = "aborted"
    /\ USERNAME /\ PASSWORD
    /\ csv # <<>>
    /\ tasks = <<>>

(***************************************************************************)
(* C8.  The batch given to send_config_set for host h is, for the pairs of *)
(* h's list in devices_interfaces in order, 'interface <iface>' followed   *)
(* by 'no description' when desc is "blank" in any letter case and by      *)
(* 'description <desc>' otherwise; send_config_set is called at most once  *)
(* in a task.                                                              *)
(***************************************************************************)
IsLetter(c) == (c >= 65 /\ c <= 90) \/ (c >= 97 /\ c <= 122)

SameIgnoringCase(a, b) ==
    /\ Len(a) = Len(b)
    /\ \A k \in 1..Len(a) :
           \/ a[k] = b[k]
           \/ IsLetter(a[k]) /\ IsLetter(b[k]) /\ (a[k] - b[k] = 32 \/ b[k] - a[k] = 32)

IsBatchOf(batch, list) ==
    /\ Len(batch) = 2 * Len(list)
    /\ \A k \in 1..Len(list) :
           /\ batch[2 * k - 1] = <<"interface {iface}", list[k][1]>>
           /\ batch[2 * k] = IF SameIgnoringCase(list[k][2], blank)
                             THEN <<"no description">>
                             ELSE <<"description {desc}", list[k][2]>>

C8_BatchOfOwnList ==
    \A t \in TaskIds :
        t \in 1..Len(tasks) =>
            /\ Cardinality(CallsOf(t, "apply")) <= 1
            /\ \A k \in CallsOf(t, "apply") :
                   IsBatchOf(tasks[t].log[k].arg, PlanList(tasks[t].host))

\* of two hosts, one has a list of two pairs, the first of them "Blank", and
\* its batch has been sent
C8_Witness ==
    /\ Len(devices_interfaces) = 2
    /\ \E t \in TaskIds :
           /\ t \in 1..Len(tasks)
           /\ Len(PlanList(tasks[t].host)) = 2
           /\ PlanList(tasks[t].host)[1][2] = DescBlank
           /\ CallsOf(t, "apply") # {}

(***************************************************************************)
(* C9.  What a finished run has printed depends only on                    *)
(* devices_interfaces and on the outcome of each host: it is what the run  *)
(* prints when the tasks complete in the order they were submitted in.     *)
(***************************************************************************)
\* results as the collection loop builds it when the tasks complete in
\* submission order
ResultsInSubmissionOrder ==
    [k \in 1..Len(devices_interfaces) |->
        <<devices_interfaces[k][1], DictGet(results, devices_interfaces[k][1])>>]

RECURSIVE ReportOf(_, _)
ReportOf(res, hosts) ==
    IF hosts = <<>> THEN <<>>
    ELSE ReportLines(Head(hosts), DictGet(res, Head(hosts))[1], DictGet(res, Head(hosts))[2])
         \o ReportOf(res, Tail(hosts))

C9_ReportDeterministic ==
    pc = "done" =>
        stdout = ReportOf(ResultsInSubmissionOrder, Sorted(DictKeys(ResultsInSubmissionOrder)))
                 \o SummaryLines(ResultsInSubmissionOrder)

(***************************************************************************)
(* C10.  As claimed: once the configure_switch call of a host has          *)
(* returned, the block of that host is printed, even if the call of        *)
(* another host never returns.  (A run in which future.result() has raised *)
(* in the main thread prints nothing at all, which is C2's matter and is   *)
(* left aside here.)                                                       *)
(***************************************************************************)
Returned(t) == Ended(t) /\ tasks[t].outcome[1] = "result"

Gathered(t) == t \in yielded /\ DictHas(results, tasks[t].host)

BlockPrinted(t) ==
    /\ t \in 1..Len(tasks)
    /\ \E k \in 1..Len(stdout) : stdout[k] = tasks[t].outcome[2][3][1]

BlockStarts ==
    Printed(">>> Verifying interface descriptions on {host}:")
    \cup Printed("XXX ERROR on {host}: {e}")

\* the hosts whose task returned with success flag ok
HostsReturning(ok) ==
    {tasks[t].host : t \in {u \in 1..Len(tasks) : Returned(u) /\ tasks[u].outcome[2][1] = ok}}

MarkedHosts == {stdout[k][2] : k \in Printed(">>> SUCCESS: {host}")}

ListedHosts == {stdout[k][2] : k \in Printed(" - {h}")}

C11_ReportAgreesWithOutcomes ==
    /\ \A i \in BlockStarts, j \in BlockStarts :
           i < j => StrLess(stdout[i][2], stdout[j][2])
    /\ MarkedHosts \subseteq HostsReturning(TRUE)
    /\ pc = "done" =>
           /\ {stdout[k][2] : k \in BlockStarts} = PlanHosts
           /\ MarkedHosts = HostsReturning(TRUE)
           /\ Cardinality(Printed(">>> SUCCESS: {host}")) = Cardinality(MarkedHosts)
           /\ (Printed("\nFailed hosts:") # {}) = (HostsReturning(FALSE) # {})
           /\ ListedHosts = HostsReturning(FALSE)
           /\ Cardinality(Printed(" - {h}")) = Cardinality(ListedHosts)

\* a complete report of one success and one failure whose outcomes were
\* gathered in descending host order
C11_Witness ==
    /\ pc = "done"
    /\ Len(results) = 2
    /\ StrLess(results[2][1], results[1][1])
    /\ HostsReturning(TRUE) # {}
    /\ HostsReturning(FALSE) # {}

(***************************************************************************)
(* C12.  When every device call ends, a run that has both credentials and  *)
(* a complete row in its CSV eventually has an entry in results for every  *)
(* host of devices_interfaces and has printed the summary.                 *)
(***************************************************************************)
C12_EveryRunPrintsSummary ==
    (USERNAME /\ PASSWORD /\ ~NoUsableRows) =>
        <>(/\ pc = "done"
           /\ Printed("\n========== SUMMARY ==========") # {}
           /\ \A h \in PlanHosts : DictHas(results, h))

(***************************************************************************)
(* C13.  The device calls of a task come in the order open, enable, apply, *)
(* persist, queries, close, each at most once but the queries; enable is   *)
(* called only with SECRET set, and with SECRET set apply is called only   *)
(* after enable returned; persist is called only after apply returned, a   *)
(* query only after persist returned; and a task returns success only if   *)
(* apply, persist and a query for each interface of its host returned.     *)
(***************************************************************************)
Rank(op) ==
    CASE op = "open" -> 1
      [] op = "enable" -> 2
      [] op = "apply" -> 3
      [] op = "persist" -> 4
      [] op = "query" -> 5
      [] op = "close" -> 6

\* a call of op that returned, before position k of the log of task t
ReturnedBefore(t, op, k) ==
    \E j \in CallsOf(t, op) : j < k /\ tasks[t].log[j].ok

C13_CallsInOrder ==
    \A t \in TaskIds :
        t \in 1..Len(tasks) =>
            LET log == tasks[t].log IN
            /\ \A j \in 1..Len(log), k \in 1..Len(log) :
                   j < k => \/ Rank(log[j].op) < Rank(log[k].op)
                            \/ log[j].op = "query" /\ log[k].op = "query"
            /\ \A k \in 1..Len(log) :
                   log[k].op # "open" => ReturnedBefore(t, "open", k)
            /\ CallsOf(t, "enable") # {} => SECRET
            /\ \A k \in CallsOf(t, "apply") : SECRET => ReturnedBefore(t, "enable", k)
            /\ \A k \in CallsOf(t, "persist") : ReturnedBefore(t, "apply", k)
            /\ \A k \in CallsOf(t, "query") : ReturnedBefore(t, "persist", k)
            /\ (Returned(t) /\ tasks[t].outcome[2][1]) =>
                   /\ ReturnedBefore(t, "apply", Len(log) + 1)
                   /\ ReturnedBefore(t, "persist", Len(log) + 1)
                   /\ \A n \in 1..Len(PlanList(tasks[t].host)) :
                          \E k \in CallsOf(t, "query") :
                              /\ log[k].ok
                              /\ log[k].arg[2] = PlanList(tasks[t].host)[n][1]

\* with SECRET set, a task of a host of two interfaces has returned success
\* after its seven calls
C13_Witness ==
    /\ SECRET
    /\ \E t \in TaskIds :
           /\ Returned(t)
           /\ tasks[t].outcome[2][1]
           /\ Len(PlanList(tasks[t].host)) = 2
           /\ Len(tasks[t].log) = 7

(***************************************************************************)
(* C14.  A session is used only by the task that opened it, to that task's *)
(* own host, between its open and its close; the task has closed it when   *)
(* it ends; so no session is open once the main thread is past the pool:   *)
(* while it reports, when it is done, and when the run has aborted or      *)
(* crashed.                                                                *)
(***************************************************************************)
\* task t has a session that it has not closed
SessionOpen(t) == t \in 1..Len(tasks) /\ Opened(t) /\ CallsOf(t, "close") = {}

C14_SessionsOwnedAndClosed ==
    /\ \A t \in TaskIds :
           t \in 1..Len(tasks) =>
               /\ tasks[t].state = "PENDING" => tasks[t].log = <<>>
               /\ \A k \in CallsOf(t, "open") : tasks[t].log[k].arg = tasks[t].host
               /\ \A k \in 1..Len(tasks[t].log) :
                      tasks[t].log[k].op # "open" =>
                          /\ ReturnedBefore(t, "open", k)
                          /\ \A j \in CallsOf(t, "close") : j >= k
               /\ Ended(t) => ~SessionOpen(t)
    /\ pc \in {"report", "done", "crashed", "aborted"} =>
           \A t \in TaskIds : ~SessionOpen(t)

\* the Reporter is about to print its first line, after two tasks each
\* opened and closed a session
C14_Witness ==
    /\ pc = "report"
    /\ stdout = <<>>
    /\ Len(tasks) = 2
    /\ \A t \in 1..Len(tasks) : Opened(t) /\ CallsOf(t, "close") # {}

(***************************************************************************)
(* C15.  results is write-once per key: a step never changes or removes an *)
(* entry that is there; and every entry is the flag and text returned by a *)
(* gathered task submitted for the host that is its key, with as many      *)
(* entries as gathered tasks that returned, so no write fell on a key      *)
(* already written.                                                        *)
(***************************************************************************)
GatheredReturns == {t \in yielded : tasks[t].outcome[1] = "result"}

C15_EntriesAreTaskReturns ==
    /\ Cardinality({results[k][1] : k \in 1..Len(results)}) = Len(results)
    /\ Len(results) = Cardinality(GatheredReturns)
    /\ \A k \in 1..Len(results) :
           \E t \in GatheredReturns :
               /\ tasks[t].host = results[k][1]
               /\ DictGet(devices_interfaces, results[k][1]) = tasks[t].entries
               /\ results[k][2] = <<tasks[t].outcome[2][1], tasks[t].outcome[2][3]>>

C15_ResultsWriteOnce ==
    /\ []C15_EntriesAreTaskReturns
    /\ [][\A k \in 1..Len(results) :
              Len(results') >= k /\ results'[k] = results[k]]_vars

\* two tasks have each written their entry
C15_Witness ==
    /\ Len(results) = 2
    /\ Cardinality(GatheredReturns) = 2

(***************************************************************************)
(* C16.  At every moment the configure_switch calls in progress, and so    *)
(* the sessions that are open, are at most as many as the pool is wide,    *)
(* and the pool is never wider than the 10 threads the program sets.       *)
(***************************************************************************)
C16_AtMostThreadsInProgress ==
    /\ threads <= DefaultThreads
    /\ Cardinality({t \in TaskIds : Running(t)}) <= threads
    /\ Cardinality({t \in TaskIds : SessionOpen(t)}) <= threads
    /\ \A t \in TaskIds : SessionOpen(t) => Running(t)

\* in a pool of one thread, one task has its session open while the task of
\* the other host waits in the queue
C16_Witness ==
    /\ threads = 1
    /\ \E t \in TaskIds, u \in TaskIds :
           /\ SessionOpen(t)
           /\ u \in 1..Len(tasks)
           /\ tasks[u].state = "PENDING"

NextLoad == CheckCredentials \/ ReadRow \/ CheckPlan

SpecLoad == InitLoad /\ [][NextLoad]_vars

====
